---- MODULE Spec2Model ----
(***************************************************************************)
(* Model of arc-commit: the interactive commit workflow of                 *)
(* internal/cmd (runInteractiveCommit and its helpers) and the prompt      *)
(* composer of internal/prompt (CommitMessage).                            *)
(*                                                                         *)
(* Go strings are modelled as sequences of one-character strings, so that  *)
(* strings.TrimSpace, strings.ToLower and concatenation are computed and   *)
(* not assumed.  The external collaborators (git, the AI service, the      *)
(* editor, the terminal) are nondeterministic choices over their outcomes. *)
(***************************************************************************)
EXTENDS Integers, Sequences, FiniteSets, TLC

(***************************************************************************)
(* Bounds of the model.                                                    *)
(***************************************************************************)
\* Upper bound on the number of external calls after which the terminal is
\* no longer read (bounds the number of Invalid / Regenerate rounds).
MaxCalls == 11

\* Upper bound on the length of the diffs and feedback texts that
\* CommitMessage is applied to on its own.
MaxLen == 2

(***************************************************************************)
(* Strings.                                                                *)
(***************************************************************************)
EmptyString == <<>>

\* unicode.IsSpace restricted to the characters of the model's alphabet.
IsSpace(c) == c \in {" ", "\t", "\n", "\r", "\f"}

UpperChars ==
    <<"A", "B", "C", "D", "E", "F", "G", "H", "I", "J", "K", "L", "M",
      "N", "O", "P", "Q", "R", "S", "T", "U", "V", "W", "X", "Y", "Z">>

LowerChars ==
    <<"a", "b", "c", "d", "e", "f", "g", "h", "i", "j", "k", "l", "m",
      "n", "o", "p", "q", "r", "s", "t", "u", "v", "w", "x", "y", "z">>

LowerChar(c) ==
    IF \E i \in 1..Len(UpperChars) : UpperChars[i] = c
    THEN LowerChars[CHOOSE i \in 1..Len(UpperChars) : UpperChars[i] = c]
    ELSE c

\* strings.ToLower
ToLower(s) == [i \in 1..Len(s) |-> LowerChar(s[i])]

RECURSIVE TrimLeft(_)
TrimLeft(s) ==
    IF Len(s) > 0 /\ IsSpace(Head(s)) THEN TrimLeft(Tail(s)) ELSE s

RECURSIVE TrimRight(_)
TrimRight(s) ==
    IF Len(s) > 0 /\ IsSpace(s[Len(s)])
    THEN TrimRight(SubSeq(s, 1, Len(s) - 1))
    ELSE s

\* strings.TrimSpace
TrimSpace(s) == TrimRight(TrimLeft(s))

(***************************************************************************)
(* internal/prompt: CommitMessage.                                         *)
(***************************************************************************)
CommitMessageModel == "claude-haiku-4-5-20251001"

SystemPrompt ==
    "You are an expert developer who writes clear, professional commit messages following conventional commits format.\n\nYour task is to generate a commit message based on git diff output. Follow these principles:\n\n1. **Format**: Use conventional commits (feat:, fix:, refactor:, docs:, test:, chore:)\n2. **Subject line**: Concise summary (max 72 chars), imperative mood (\"add\" not \"added\")\n3. **Body**: Explain WHY, not WHAT (the diff shows what changed)\n4. **Scope**: Add scope when helpful (e.g., \"feat(cli):\", \"fix(database):\")\n5. **Breaking changes**: Use \"!\" for breaking changes (e.g., \"feat!:\")\n\nStyle guidelines:\n- Clear and professional tone\n- No unnecessary words or filler\n- Focus on user impact and intent\n- Group related changes logically\n\nOutput ONLY the commit message, no additional commentary."

UserPrefix ==
    <<"G", "e", "n", "e", "r", "a", "t", "e", " ", "a", " ", "c", "o", "n",
      "v", "e", "n", "t", "i", "o", "n", "a", "l", " ", "c", "o", "m", "m",
      "i", "t", " ", "m", "e", "s", "s", "a", "g", "e", " ", "f", "o", "r",
      " ", "t", "h", "e", "s", "e", " ", "c", "h", "a", "n", "g", "e", "s",
      ":", "\n", "\n">>

FeedbackMarker ==
    <<"\n", "\n", "U", "s", "e", "r", " ", "f", "e", "e", "d", "b", "a",
      "c", "k", " ", "f", "o", "r", " ", "i", "m", "p", "r", "o", "v", "e",
      "m", "e", "n", "t", ":", " ">>

\* Variant: the feedback block is appended whether or not there is feedback.
CommitMessageAlwaysFeedback(diff, feedback) ==
    [system |-> SystemPrompt,
     user   |-> UserPrefix \o diff \o FeedbackMarker \o feedback]

CommitMessage(diff, feedback) ==
    [system |-> SystemPrompt,
     user   |-> IF feedback # EmptyString
                THEN UserPrefix \o diff \o FeedbackMarker \o feedback
                ELSE UserPrefix \o diff]

(***************************************************************************)
(* Outcomes of the external collaborators, drawn from small sets.          *)
(***************************************************************************)
\* Outcome of exec.Cmd.Run for `git diff --staged --quiet`: the process ran
\* and exited with a code, or it could not be started (no *exec.ExitError).
GitRuns ==
    {[started |-> TRUE, code |-> 0], [started |-> TRUE, code |-> 1],
     [started |-> TRUE, code |-> 2], [started |-> TRUE, code |-> 128],
     [started |-> FALSE, code |-> 0]}

NoRun == [started |-> FALSE, code |-> -1]

\* Standard output of `git diff --staged`.
Diffs == {EmptyString, <<"-", "a", "\n", "+", "b">>}

\* resp.Text of the AI service.
RawTexts ==
    {<<"f", "i", "x">>, <<" ", "f", "i", "x", "\n">>,
     <<"\n", "f", ":", " ", "a", "\n", "\n", "b", " ">>}

\* Lines typed at the [y]es/[n]o/[e]dit/[c]ancel prompt.
ChoiceLines ==
    {<<"y", "\n">>, <<" ", "Y", "E", "S", " ", "\n">>,
     <<"n", "\n">>, <<"N", "o", "\n">>,
     <<"e", "\n">>, <<"E", "d", "i", "t", "\n">>,
     <<"c", "\n">>, <<"c", "a", "n", "c", "e", "l", "\n">>,
     <<"q", "\n">>, <<"\n">>, <<"m", "a", "y", "b", "e", "\n">>}

\* Lines typed at the feedback prompt.
FeedbackLines ==
    {<<"\n">>, <<"b", "u", "g", "\n">>, <<" ", "d", "o", "c", "s", " ", "\n">>}

\* Data returned by ReadString together with an error (no delimiter seen).
PartialLines == {<<"b", "u">>}

\* Contents of the temporary file after the editor exits.
EditedTexts == {<<"x", ":", " ", "y">>, <<"x", "\n">>, EmptyString}

EditorOutcomes == {"createfail", "writefail", "editorfail", "readfail", "ok"}

\* How the program is invoked: with the commit subcommand or with none.
Invocations == {"commit", "root"}

\* Values of --model; "" is the flag not given.
FlagModels == {"", "flag-model"}

\* DefaultModel of the configuration returned by ai.LoadConfig.
ConfigModels == {"", "config-model"}

(***************************************************************************)
(* Errors.  NilError is Go's nil error; every other error is the text of   *)
(* its message.  A session result is the error value returned by           *)
(* runInteractiveCommit: status "running" while it has not returned.       *)
(***************************************************************************)
NilError == "nil"

Running == [status |-> "running", msg |-> "", cause |-> ""]

Success == [status |-> "nil", msg |-> "", cause |-> ""]

\* errors.NewCLIError(msg), optionally .WithCause(cause); cause "" is none.
CLIError(msg, cause) == [status |-> "error", msg |-> msg, cause |-> cause]

(***************************************************************************)
(* internal/cmd: the helpers of runInteractiveCommit.                      *)
(***************************************************************************)
checkStagedChanges(run) ==
    IF run.started /\ run.code = 0
    THEN "no staged changes"
    ELSE IF run.started /\ run.code = 1
         THEN NilError
         ELSE "failed to check staged changes"

getStagedDiff(ok, output) ==
    IF ok
    THEN [diff |-> output, err |-> NilError]
    ELSE [diff |-> EmptyString, err |-> "failed to get diff"]

\* Variant: the response text is used as it is, without strings.TrimSpace.
generateCommitMessageUntrimmed(d, fb, ok, text) ==
    IF ok
    THEN [msg |-> text, err |-> NilError]
    ELSE [msg |-> EmptyString, err |-> "AI request failed"]

generateCommitMessage(d, fb, ok, text) ==
    IF ok
    THEN [msg |-> TrimSpace(text), err |-> NilError]
    ELSE [msg |-> EmptyString, err |-> "AI request failed"]

\* Variant: the temporary file is removed by a call at the end of the
\* function instead of a deferred one, so the early returns leave it behind.
editInEditorNoDefer(msg, outcome, content) ==
    CASE outcome = "createfail" ->
           [edited |-> EmptyString, err |-> "failed to create temp file",
            buffer |-> EmptyString, tmp |-> "none"]
      [] outcome = "writefail" ->
           [edited |-> EmptyString, err |-> "failed to write temp file",
            buffer |-> EmptyString, tmp |-> "exists"]
      [] outcome = "editorfail" ->
           [edited |-> EmptyString, err |-> "editor failed",
            buffer |-> msg, tmp |-> "exists"]
      [] outcome = "readfail" ->
           [edited |-> EmptyString, err |-> "failed to read edited file",
            buffer |-> msg, tmp |-> "exists"]
      [] outcome = "ok" ->
           [edited |-> content, err |-> NilError,
            buffer |-> msg, tmp |-> "removed"]

editInEditor(msg, outcome, content) ==
    CASE outcome = "createfail" ->
           [edited |-> EmptyString, err |-> "failed to create temp file",
            buffer |-> EmptyString, tmp |-> "none"]
      [] outcome = "writefail" ->
           [edited |-> EmptyString, err |-> "failed to write temp file",
            buffer |-> EmptyString, tmp |-> "removed"]
      [] outcome = "editorfail" ->
           [edited |-> EmptyString, err |-> "editor failed",
            buffer |-> msg, tmp |-> "removed"]
      [] outcome = "readfail" ->
           [edited |-> EmptyString, err |-> "failed to read edited file",
            buffer |-> msg, tmp |-> "removed"]
      [] outcome = "ok" ->
           [edited |-> content, err |-> NilError,
            buffer |-> msg, tmp |-> "removed"]

createCommit(ok) ==
    IF ok THEN NilError ELSE "failed to create commit"

\* Variant: the short form "c" is not a case of the switch.
DecisionNoShortCancel(choice) ==
    CASE choice \in {<<"y">>, <<"y", "e", "s">>} -> "approve"
      [] choice \in {<<"n">>, <<"n", "o">>} -> "regenerate"
      [] choice \in {<<"e">>, <<"e", "d", "i", "t">>} -> "edit"
      [] choice \in {<<"c", "a", "n", "c", "e", "l">>} -> "cancel"
      [] OTHER -> "invalid"

\* Variant: pressing Enter alone accepts the message.
DecisionEnterApproves(choice) ==
    CASE choice \in {EmptyString, <<"y">>, <<"y", "e", "s">>} -> "approve"
      [] choice \in {<<"n">>, <<"n", "o">>} -> "regenerate"
      [] choice \in {<<"e">>, <<"e", "d", "i", "t">>} -> "edit"
      [] choice \in {<<"c">>, <<"c", "a", "n", "c", "e", "l">>} -> "cancel"
      [] OTHER -> "invalid"

\* Variant: the flag value replaces the configured model even when the flag
\* is not given.
OverrideModelAlways(cfgm, flag) == flag

\* RunE of the commit subcommand: the flag overrides the configuration.
OverrideModel(cfgm, flag) == IF flag # "" THEN flag ELSE cfgm

\* runInteractiveCommit: the default model if none is specified.
DefaultModel(m) == IF m = "" THEN CommitMessageModel ELSE m

\* The root command has no Run function and defines no flags: given a flag
\* it fails, given none it prints its help and returns nil.
RootCommand(ay, dr, flag) ==
    IF ay \/ dr \/ flag # ""
    THEN [status |-> "error", msg |-> "unknown flag", cause |-> ""]
    ELSE [status |-> "nil", msg |-> "", cause |-> ""]

\* Variant: main does not look at the error returned by Execute.
ExitCodeIgnoringError(r) == 0

\* main: os.Exit(1) on an error, a normal return otherwise.
ExitCode(r) == IF r.status = "error" THEN 1 ELSE 0

\* The switch on the trimmed, lower-cased choice.
Decision(choice) ==
    CASE choice \in {<<"y">>, <<"y", "e", "s">>} -> "approve"
      [] choice \in {<<"n">>, <<"n", "o">>} -> "regenerate"
      [] choice \in {<<"e">>, <<"e", "d", "i", "t">>} -> "edit"
      [] choice \in {<<"c">>, <<"c", "a", "n", "c", "e", "l">>} -> "cancel"
      [] OTHER -> "invalid"

(***************************************************************************)
(* State of one run of the program: the command line, the loaded          *)
(* configuration and one session of runInteractiveCommit.                  *)
(***************************************************************************)
VARIABLES
    invocation,   \* "commit": the commit subcommand; "root": no subcommand
    autoYes,      \* --yes
    dryRun,       \* --dry-run
    flagModel,    \* --model ("" if not given)
    cfgModel,     \* DefaultModel of the loaded AI configuration ("" if none)
    svcModel,     \* DefaultModel of the configuration the service is built on
    pc,           \* position in main / runInteractiveCommit
    diff,         \* local diff
    message,      \* local message, the current candidate
    feedback,     \* local feedback of the "n" branch
    commitArg,    \* argument of the pending createCommit call
    result,       \* error value returned by runInteractiveCommit
    displayed,    \* messages printed between the "=" rules, in order
    tmpFile,      \* temporary file of editInEditor: none, exists, removed
    lastLine,     \* line last read at the choice prompt ("" if none)
    stagedRun,    \* outcome of the `git diff --staged --quiet` run
    calls,        \* history: external calls made, in order
    genCalls,     \* history: prompt pair of every generation call
    genResps,     \* history: response of every generation call
    fbLines,      \* history: data read at every feedback prompt
    editorCalls,  \* history: text handed to every editor invocation
    commits,      \* history: message of every createCommit call
    commitErrs,   \* history: error returned by every createCommit call
    genModels,    \* history: model used by every generation call
    decisions,    \* history: decision parsed from every line read
    fnIn,         \* argument of the function applied on its own
    fnOut,        \* its result
    fnDone        \* whether it has been applied

vars ==
    <<invocation, autoYes, dryRun, flagModel, cfgModel, svcModel, pc, diff,
      message, feedback, commitArg, result, displayed, tmpFile, lastLine,
      stagedRun, calls, genCalls, genResps, fbLines, editorCalls, commits,
      commitErrs, genModels, decisions, fnIn, fnOut, fnDone>>

\* The command line and the loaded configuration.
flags == <<invocation, autoYes, dryRun, flagModel, cfgModel>>

\* The variables of the functions applied on their own.
fn == <<fnIn, fnOut, fnDone>>

\* The state before main has done anything.
Start ==
    /\ svcModel = ""
    /\ diff = EmptyString
    /\ message = EmptyString
    /\ feedback = EmptyString
    /\ commitArg = EmptyString
    /\ result = Running
    /\ displayed = <<>>
    /\ tmpFile = "none"
    /\ lastLine = EmptyString
    /\ stagedRun = NoRun
    /\ calls = <<>>
    /\ genCalls = <<>>
    /\ genResps = <<>>
    /\ fbLines = <<>>
    /\ editorCalls = <<>>
    /\ commits = <<>>
    /\ commitErrs = <<>>
    /\ genModels = <<>>
    /\ decisions = <<>>

Init ==
    /\ invocation \in Invocations
    /\ autoYes \in BOOLEAN
    /\ dryRun \in BOOLEAN
    /\ flagModel \in FlagModels
    /\ cfgModel \in ConfigModels
    /\ pc = "main"
    /\ Start
    /\ fnIn = <<>>
    /\ fnOut = <<>>
    /\ fnDone = FALSE

\* return err
Return(err) ==
    /\ pc' = "done"
    /\ result' = err

\* main: load the configuration and execute the command line.
Main ==
    /\ pc = "main"
    /\ \E ok \in BOOLEAN :
         IF ~ok
         THEN Return([status |-> "error", msg |-> "failed to load AI config",
                      cause |-> "config error"])
         ELSE IF invocation = "commit"
              THEN pc' = "check" /\ result' = result
              ELSE Return(RootCommand(autoYes, dryRun, flagModel))
    /\ UNCHANGED <<flags, fn, svcModel, commitErrs, genModels, decisions,
                   lastLine, diff, message, feedback, commitArg, displayed,
                   tmpFile, stagedRun, calls, genCalls, genResps, fbLines,
                   editorCalls, commits>>

\* 1. Check for staged changes.
CheckStaged ==
    /\ pc = "check"
    /\ \E run \in GitRuns :
         /\ stagedRun' = run
         /\ calls' = Append(calls, "check")
         /\ IF checkStagedChanges(run) # NilError
            THEN Return(CLIError("no staged changes found", ""))
            ELSE pc' = "diff" /\ result' = result
    /\ UNCHANGED <<flags, fn, svcModel, commitErrs, genModels, decisions,
                   lastLine, diff, message, feedback, commitArg, displayed,
                   tmpFile, genCalls, genResps, fbLines, editorCalls,
                   commits>>

\* 2. Get diff, and reject the empty diff.
GetDiff ==
    /\ pc = "diff"
    /\ \E ok \in BOOLEAN, output \in Diffs :
         LET r == getStagedDiff(ok, output) IN
         /\ calls' = Append(calls, "diff")
         /\ diff' = r.diff
         /\ IF r.err # NilError
            THEN Return(CLIError("failed to get diff", r.err))
            ELSE IF Len(r.diff) = 0
                 THEN Return(CLIError("no changes to commit", ""))
                 ELSE pc' = "client" /\ result' = result
    /\ UNCHANGED <<flags, fn, svcModel, commitErrs, genModels, decisions,
                   lastLine, message, feedback, commitArg, displayed, tmpFile,
                   stagedRun, genCalls, genResps, fbLines, editorCalls,
                   commits>>

\* 3. Create AI client and service.
NewClient ==
    /\ pc = "client"
    /\ \E ok \in BOOLEAN :
         /\ calls' = Append(calls, "client")
         /\ svcModel' =
              IF ok
              THEN DefaultModel(OverrideModel(cfgModel, flagModel))
              ELSE svcModel
         /\ IF ~ok
            THEN Return(CLIError("failed to create AI client", "client error"))
            ELSE pc' = "generate" /\ result' = result
    /\ UNCHANGED <<flags, fn, commitErrs, genModels, decisions, lastLine,
                   diff, message, feedback, commitArg, displayed, tmpFile,
                   stagedRun, genCalls, genResps, fbLines, editorCalls,
                   commits>>

\* The call of service.Run made by generateCommitMessage(service, d, fb).
RunService(d, fb, ok, text) ==
    /\ calls' = Append(calls, "gen")
    /\ genCalls' = Append(genCalls, CommitMessage(d, fb))
    /\ genModels' = Append(genModels, svcModel)
    /\ genResps' = Append(genResps,
                           [ok |-> ok,
                            text |-> IF ok THEN text ELSE EmptyString])

\* Variant: a failed initial generation is tried again.
GenerateRetried ==
    /\ pc = "generate"
    /\ \E ok \in BOOLEAN, text \in RawTexts :
         LET r == generateCommitMessage(diff, EmptyString, ok, text) IN
         /\ RunService(diff, EmptyString, ok, text)
         /\ message' = r.msg
         /\ pc' = IF r.err # NilError THEN "generate" ELSE "present"
         /\ result' = result
    /\ UNCHANGED <<flags, fn, svcModel, commitErrs, decisions, lastLine, diff,
                   feedback, commitArg, displayed, tmpFile, stagedRun,
                   fbLines, editorCalls, commits>>

\* 4. Initial message generation.
Generate ==
    /\ pc = "generate"
    /\ \E ok \in BOOLEAN, text \in RawTexts :
         LET r == generateCommitMessage(diff, EmptyString, ok, text) IN
         /\ RunService(diff, EmptyString, ok, text)
         /\ message' = r.msg
         /\ IF r.err # NilError
            THEN Return(CLIError("failed to generate commit message", r.err))
            ELSE pc' = "present" /\ result' = result
    /\ UNCHANGED <<flags, fn, svcModel, commitErrs, decisions, lastLine, diff,
                   feedback, commitArg, displayed, tmpFile, stagedRun,
                   fbLines, editorCalls, commits>>

\* Variant: the auto-yes check comes before the dry-run check.
PresentBranchAutoFirst(dr, ay) ==
    IF ay THEN "auto" ELSE IF dr THEN "dryrun" ELSE "prompt"

\* Variant: the line is trimmed but not lower-cased.
ParseDecisionCaseSensitive(line) == Decision(TrimSpace(line))

\* The decision that a line read at the prompt stands for.
ParseDecision(line) == Decision(ToLower(TrimSpace(line)))

\* Top of the loop: which of the three ways the iteration continues.
PresentBranch(dr, ay) ==
    IF dr THEN "dryrun" ELSE IF ay THEN "auto" ELSE "prompt"

\* 5. Top of the interactive loop: display, dry run, auto-yes.
Present ==
    /\ pc = "present"
    /\ displayed' = Append(displayed, message)
    /\ LET b == PresentBranch(dryRun, autoYes) IN
       CASE b = "dryrun" -> Return(Success) /\ commitArg' = commitArg
         [] b = "auto" ->
              pc' = "commit" /\ commitArg' = message /\ result' = result
         [] b = "prompt" ->
              pc' = "prompt" /\ commitArg' = commitArg /\ result' = result
    /\ UNCHANGED <<flags, fn, svcModel, commitErrs, genModels, decisions,
                   lastLine, diff, message, feedback, tmpFile, stagedRun,
                   calls, genCalls, genResps, fbLines, editorCalls, commits>>

\* Read the choice and dispatch on it.
ReadChoice ==
    /\ pc = "prompt"
    /\ Len(calls) < MaxCalls
    /\ calls' = Append(calls, "readchoice")
    /\ \/ /\ Return(CLIError("failed to read input", "EOF"))
          /\ commitArg' = commitArg
          /\ lastLine' = EmptyString
          /\ decisions' = decisions
       \/ \E line \in ChoiceLines :
            LET d == ParseDecision(line) IN
            /\ lastLine' = line
            /\ decisions' = Append(decisions, d)
            /\ CASE d = "approve" ->
                      pc' = "commit" /\ commitArg' = message
                      /\ result' = result
                 [] d = "regenerate" ->
                      pc' = "feedback" /\ commitArg' = commitArg
                      /\ result' = result
                 [] d = "edit" ->
                      pc' = "edit" /\ commitArg' = commitArg
                      /\ result' = result
                 [] d = "cancel" -> Return(Success) /\ commitArg' = commitArg
                 [] d = "invalid" ->
                      pc' = "present" /\ commitArg' = commitArg
                      /\ result' = result
    /\ UNCHANGED <<flags, fn, svcModel, commitErrs, genModels, diff, message,
                   feedback, displayed, tmpFile, stagedRun, genCalls,
                   genResps, fbLines, editorCalls, commits>>

\* Variant: the feedback of the round is appended to the earlier feedback.
ReadFeedbackAccumulated ==
    /\ pc = "feedback"
    /\ \E data \in FeedbackLines \cup PartialLines :
         /\ feedback' = feedback \o TrimSpace(data)
         /\ fbLines' = Append(fbLines, data)
    /\ calls' = Append(calls, "readfeedback")
    /\ pc' = "regenerate"
    /\ UNCHANGED <<flags, fn, svcModel, commitErrs, genModels, decisions,
                   lastLine, diff, message, commitArg, result, displayed,
                   tmpFile, stagedRun, genCalls, genResps, editorCalls,
                   commits>>

\* "n": read the feedback line; the error of ReadString is discarded.
ReadFeedback ==
    /\ pc = "feedback"
    /\ \E data \in FeedbackLines \cup PartialLines :
         /\ feedback' = TrimSpace(data)
         /\ fbLines' = Append(fbLines, data)
    /\ calls' = Append(calls, "readfeedback")
    /\ pc' = "regenerate"
    /\ UNCHANGED <<flags, fn, svcModel, commitErrs, genModels, decisions,
                   lastLine, diff, message, commitArg, result, displayed,
                   tmpFile, stagedRun, genCalls, genResps, editorCalls,
                   commits>>

\* Variant: the regenerated text is assigned to a variable that shadows
\* message, so the candidate stays the one of the first generation.
RegenerateShadowed ==
    /\ pc = "regenerate"
    /\ \E ok \in BOOLEAN, text \in RawTexts :
         LET r == generateCommitMessage(diff, feedback, ok, text) IN
         /\ RunService(diff, feedback, ok, text)
         /\ IF r.err # NilError
            THEN Return(CLIError("failed to regenerate message", r.err))
            ELSE pc' = "present" /\ result' = result
    /\ UNCHANGED <<flags, fn, svcModel, commitErrs, decisions, lastLine, diff,
                   message, feedback, commitArg, displayed, tmpFile,
                   stagedRun, fbLines, editorCalls, commits>>

\* Variant: the staged diff is fetched again before every regeneration.
RegenerateRefetched ==
    /\ pc = "regenerate"
    /\ \E output \in Diffs, ok \in BOOLEAN, text \in RawTexts :
         LET r == generateCommitMessage(output, feedback, ok, text) IN
         /\ diff' = output
         /\ calls' = calls \o <<"diff", "gen">>
         /\ genCalls' = Append(genCalls, CommitMessage(output, feedback))
         /\ genModels' = Append(genModels, svcModel)
         /\ genResps' = Append(genResps,
                                [ok |-> ok,
                                 text |-> IF ok THEN text ELSE EmptyString])
         /\ message' = r.msg
         /\ IF r.err # NilError
            THEN Return(CLIError("failed to regenerate message", r.err))
            ELSE pc' = "present" /\ result' = result
    /\ UNCHANGED <<flags, fn, svcModel, commitErrs, decisions, lastLine,
                   feedback, commitArg, displayed, tmpFile, stagedRun,
                   fbLines, editorCalls, commits>>

\* "n": regenerate with the feedback just read.
Regenerate ==
    /\ pc = "regenerate"
    /\ \E ok \in BOOLEAN, text \in RawTexts :
         LET r == generateCommitMessage(diff, feedback, ok, text) IN
         /\ RunService(diff, feedback, ok, text)
         /\ message' = r.msg
         /\ IF r.err # NilError
            THEN Return(CLIError("failed to regenerate message", r.err))
            ELSE pc' = "present" /\ result' = result
    /\ UNCHANGED <<flags, fn, svcModel, commitErrs, decisions, lastLine, diff,
                   feedback, commitArg, displayed, tmpFile, stagedRun,
                   fbLines, editorCalls, commits>>

\* Variant: after a successful edit the unedited message is committed.
EditCommitsOriginal ==
    /\ pc = "edit"
    /\ \E outcome \in EditorOutcomes, content \in EditedTexts \cup {message} :
         LET r == editInEditor(message, outcome, content) IN
         /\ calls' = Append(calls, "editor")
         /\ editorCalls' =
              Append(editorCalls,
                     [initial |-> r.buffer, err |-> r.err,
                      edited |-> r.edited, outcome |-> outcome])
         /\ tmpFile' = r.tmp
         /\ IF r.err # NilError
            THEN Return(CLIError("failed to open editor", r.err))
                 /\ commitArg' = commitArg
            ELSE pc' = "commit" /\ commitArg' = message /\ result' = result
    /\ UNCHANGED <<flags, fn, svcModel, commitErrs, genModels, decisions,
                   lastLine, diff, message, feedback, displayed, stagedRun,
                   genCalls, genResps, fbLines, commits>>

\* "e": edit the message in the editor, then commit the edited text.
Edit ==
    /\ pc = "edit"
    /\ \E outcome \in EditorOutcomes, content \in EditedTexts \cup {message} :
         LET r == editInEditor(message, outcome, content) IN
         /\ calls' = Append(calls, "editor")
         /\ editorCalls' =
              Append(editorCalls,
                     [initial |-> r.buffer, err |-> r.err,
                      edited |-> r.edited, outcome |-> outcome])
         /\ tmpFile' = r.tmp
         /\ IF r.err # NilError
            THEN Return(CLIError("failed to open editor", r.err))
                 /\ commitArg' = commitArg
            ELSE pc' = "commit" /\ commitArg' = r.edited /\ result' = result
    /\ UNCHANGED <<flags, fn, svcModel, commitErrs, genModels, decisions,
                   lastLine, diff, message, feedback, displayed, stagedRun,
                   genCalls, genResps, fbLines, commits>>

\* Variant: a failed createCommit is tried again.
CommitRetried ==
    /\ pc = "commit"
    /\ \E ok \in BOOLEAN :
         /\ calls' = Append(calls, "commit")
         /\ commits' = Append(commits, commitArg)
         /\ commitErrs' = Append(commitErrs, createCommit(ok))
         /\ IF createCommit(ok) = NilError
            THEN Return(Success)
            ELSE pc' = "commit" /\ result' = result
    /\ UNCHANGED <<flags, fn, svcModel, genModels, decisions, lastLine, diff,
                   message, feedback, commitArg, displayed, tmpFile,
                   stagedRun, genCalls, genResps, fbLines, editorCalls>>

\* Variant: a failed createCommit goes back to the top of the loop.
CommitFailureLoops ==
    /\ pc = "commit"
    /\ \E ok \in BOOLEAN :
         /\ calls' = Append(calls, "commit")
         /\ commits' = Append(commits, commitArg)
         /\ commitErrs' = Append(commitErrs, createCommit(ok))
         /\ IF createCommit(ok) = NilError
            THEN Return(Success)
            ELSE pc' = "present" /\ result' = result
    /\ UNCHANGED <<flags, fn, svcModel, genModels, decisions, lastLine, diff,
                   message, feedback, commitArg, displayed, tmpFile,
                   stagedRun, genCalls, genResps, fbLines, editorCalls>>

\* return createCommit(commitArg)
Commit ==
    /\ pc = "commit"
    /\ \E ok \in BOOLEAN :
         /\ calls' = Append(calls, "commit")
         /\ commits' = Append(commits, commitArg)
         /\ commitErrs' = Append(commitErrs, createCommit(ok))
         /\ Return(IF createCommit(ok) = NilError
                   THEN Success
                   ELSE [status |-> "error", msg |-> createCommit(ok),
                         cause |-> "exit status"])
    /\ UNCHANGED <<flags, fn, svcModel, genModels, decisions, lastLine, diff,
                   message, feedback, commitArg, displayed, tmpFile,
                   stagedRun, genCalls, genResps, fbLines, editorCalls>>

Next ==
    \/ Main
    \/ CheckStaged
    \/ GetDiff
    \/ NewClient
    \/ Generate
    \/ Present
    \/ ReadChoice
    \/ ReadFeedback
    \/ Regenerate
    \/ Edit
    \/ Commit

Spec == Init /\ [][Next]_vars

(***************************************************************************)
(* The session under fairness.  Every step of Next is a blocking call that *)
(* returns, so the session goes on as long as a step is possible.  The     *)
(* histories are bounded by MaxCalls; past that bound a further invalid    *)
(* line is read without being recorded, so that a user who never stops     *)
(* typing invalid lines is a behaviour of the model.                       *)
(***************************************************************************)
InvalidLines == {line \in ChoiceLines : ParseDecision(line) = "invalid"}

\* One more iteration of the loop on an invalid line, past the bound of the
\* histories: the line is read, the message is shown again and the prompt
\* comes back.
ReadInvalidAgain ==
    /\ pc = "prompt"
    /\ Len(calls) >= MaxCalls
    /\ \E line \in InvalidLines : lastLine' = line
    /\ UNCHANGED <<flags, fn, svcModel, pc, diff, message, feedback,
                   commitArg, result, displayed, tmpFile, stagedRun, calls,
                   genCalls, genResps, fbLines, editorCalls, commits,
                   commitErrs, genModels, decisions>>

\* The commit subcommand with the model left to the default.
InitFair ==
    /\ Init
    /\ invocation = "commit"
    /\ flagModel = ""
    /\ cfgModel = ""

NextFair == Next \/ ReadInvalidAgain

SpecFair == InitFair /\ [][NextFair]_vars /\ WF_vars(NextFair)

(***************************************************************************)
(* CommitMessage and the parsing of a choice, applied on their own to      *)
(* arguments drawn from bounded sets.                                      *)
(***************************************************************************)
\* Characters of the diffs and feedback texts.
TextChars == {"a", " ", "\n"}

\* The texts of at most MaxLen characters.
Texts == UNION {[1..k -> TextChars] : k \in 0..MaxLen}

\* What is typed before the line terminator, between optional white space.
Words ==
    {<<"y">>, <<"Y">>, <<"y", "e", "s">>, <<"Y", "E", "S">>,
     <<"Y", "e", "s">>, <<"n">>, <<"N">>, <<"n", "o">>, <<"N", "o">>,
     <<"N", "O">>, <<"e">>, <<"E">>, <<"e", "d", "i", "t">>,
     <<"E", "D", "I", "T">>, <<"E", "d", "i", "t">>, <<"c">>, <<"C">>,
     <<"c", "a", "n", "c", "e", "l">>, <<"C", "A", "N", "C", "E", "L">>,
     <<"C", "a", "n", "c", "e", "l">>, <<"q">>, <<"m", "a", "y", "b", "e">>,
     <<"y", "e">>, <<"y", "e", "s", "s">>, <<"y", " ", "e", "s">>,
     <<"n", "o", "p", "e">>, EmptyString}

LeadingSpace == {EmptyString, <<" ">>, <<"\t">>}

\* White space after the word, and the delimiter that ends ReadString.
LineEnds == {<<"\n">>, <<" ", "\n">>, <<"\r", "\n">>}

\* No run of the program: only a function is applied.
Idle ==
    /\ invocation = "commit"
    /\ autoYes = FALSE
    /\ dryRun = FALSE
    /\ flagModel = ""
    /\ cfgModel = ""
    /\ pc = "idle"
    /\ Start

InitCompose ==
    /\ Idle
    /\ fnIn \in [diff : Texts, feedback : Texts]
    /\ fnOut = <<>>
    /\ fnDone = FALSE

\* system, user := prompt.CommitMessage(diff, feedback)
Compose ==
    /\ pc = "idle"
    /\ ~fnDone
    /\ fnOut' = CommitMessage(fnIn.diff, fnIn.feedback)
    /\ fnDone' = TRUE
    /\ UNCHANGED <<flags, fnIn, svcModel, pc, diff, message, feedback,
                   commitArg, result, displayed, tmpFile, lastLine, stagedRun,
                   calls, genCalls, genResps, fbLines, editorCalls, commits,
                   commitErrs, genModels, decisions>>

SpecCompose == InitCompose /\ [][Compose]_vars

\* The line that ReadString returns for a typed word.
LineOf(in) == in.lead \o in.word \o in.end

InitDecision ==
    /\ Idle
    /\ fnIn \in [lead : LeadingSpace, word : Words, end : LineEnds]
    /\ fnOut = <<>>
    /\ fnDone = FALSE

\* choice = strings.ToLower(strings.TrimSpace(choice)); switch choice
Parse ==
    /\ pc = "idle"
    /\ ~fnDone
    /\ fnOut' = ParseDecision(LineOf(fnIn))
    /\ fnDone' = TRUE
    /\ UNCHANGED <<flags, fnIn, svcModel, pc, diff, message, feedback,
                   commitArg, result, displayed, tmpFile, lastLine, stagedRun,
                   calls, genCalls, genResps, fbLines, editorCalls, commits,
                   commitErrs, genModels, decisions>>

SpecDecision == InitDecision /\ [][Parse]_vars

(***************************************************************************)
(* Type correctness.                                                       *)
(***************************************************************************)
TypeOK ==
    /\ autoYes \in BOOLEAN
    /\ dryRun \in BOOLEAN
    /\ invocation \in Invocations
    /\ flagModel \in FlagModels
    /\ cfgModel \in ConfigModels
    /\ fnDone \in BOOLEAN
    /\ pc \in {"main", "idle", "check", "diff", "client", "generate", "present", "prompt",
               "feedback", "regenerate", "edit", "commit", "done"}
    /\ result.status \in {"running", "nil", "error"}
    /\ tmpFile \in {"none", "exists", "removed"}
    /\ (pc = "done") <=> (result.status # "running")
    /\ Len(commitErrs) = Len(commits)
    /\ Len(genModels) = Len(genCalls)

(***************************************************************************)
(* Auxiliary operators of the properties.                                  *)
(***************************************************************************)
Last(s) == s[Len(s)]

Count(s, x) == Cardinality({i \in 1..Len(s) : s[i] = x})

\* t is raw without its leading and trailing white space, stated without
\* reference to TrimSpace.
IsTrimOf(t, raw) ==
    /\ t # EmptyString => ~IsSpace(t[1]) /\ ~IsSpace(t[Len(t)])
    /\ \E i \in 0..Len(raw) :
         /\ i + Len(t) <= Len(raw)
         /\ SubSeq(raw, i + 1, i + Len(t)) = t
         /\ \A k \in 1..i : IsSpace(raw[k])
         /\ \A k \in (i + Len(t) + 1)..Len(raw) : IsSpace(raw[k])

\* sub occurs in s as a contiguous substring.
Contains(s, sub) ==
    \E i \in 0..(Len(s) - Len(sub)) : SubSeq(s, i + 1, i + Len(sub)) = sub

\* The first generation call was made and succeeded.
FirstGenerationOk == Len(genResps) >= 1 /\ genResps[1].ok

Reads == Count(calls, "readchoice") + Count(calls, "readfeedback")

(***************************************************************************)
(* C1: in every session, whatever the flags, the inputs and the outcomes   *)
(* of the external calls, createCommit is invoked at most once.            *)
(***************************************************************************)
C1_CommitAtMostOnce ==
    /\ Len(commits) <= 1
    /\ Count(calls, "commit") = Len(commits)

\* A commit made after a regeneration round and an invalid input.
C1_Witness ==
    /\ pc = "done"
    /\ Len(commits) = 1
    /\ Len(genCalls) >= 2
    /\ Count(calls, "readchoice") >= 3

(***************************************************************************)
(* C2: with --dry-run, for either value of --yes, no line is ever read     *)
(* from the terminal and createCommit is never invoked; once the first     *)
(* generation succeeded the session prints the message and returns nil.    *)
(* The dry-run check comes before the auto-yes check at every              *)
(* presentation, so --yes does not make a dry-run session commit.          *)
(***************************************************************************)
C2_DryRunNeverCommitsNorPrompts ==
    dryRun =>
      /\ Reads = 0
      /\ commits = <<>>
      /\ Count(calls, "commit") = 0
      /\ Count(calls, "editor") = 0
      /\ pc \notin {"prompt", "feedback", "regenerate", "edit", "commit"}
      /\ Len(genCalls) <= 1
      /\ FirstGenerationOk =>
           /\ pc \in {"present", "done"}
           /\ pc = "done" =>
                /\ result = Success
                /\ displayed = <<message>>
                /\ IsTrimOf(message, genResps[1].text)

\* A dry run with --yes that displayed its message and returned nil.
C2_Witness ==
    /\ dryRun
    /\ autoYes
    /\ pc = "done"
    /\ result = Success
    /\ Len(displayed) = 1
    /\ message # EmptyString

(***************************************************************************)
(* C3: with --yes and without --dry-run, a successful first generation is  *)
(* followed immediately by exactly one createCommit call whose message is  *)
(* the generated text without its leading and trailing white space; no     *)
(* line is read from the terminal and no second generation call is made.   *)
(***************************************************************************)
C3_AutoYesCommitsFirstMessage ==
    (autoYes /\ ~dryRun) =>
      /\ Reads = 0
      /\ Len(genCalls) <= 1
      /\ Len(commits) <= 1
      /\ Count(calls, "editor") = 0
      /\ FirstGenerationOk =>
           /\ pc \in {"present", "commit", "done"}
           /\ pc = "commit" => IsTrimOf(commitArg, genResps[1].text)
           /\ pc = "done" =>
                /\ calls = <<"check", "diff", "client", "gen", "commit">>
                /\ Len(commits) = 1
                /\ IsTrimOf(commits[1], genResps[1].text)

\* An auto-yes session that committed a text that needed trimming.
C3_Witness ==
    /\ autoYes
    /\ ~dryRun
    /\ pc = "done"
    /\ Len(commits) = 1
    /\ commits[1] # genResps[1].text
    /\ commits[1] # EmptyString

\* The choice last read at the prompt, trimmed and lower-cased.
NormalisedChoice == ToLower(TrimSpace(lastLine))

ChoiceRead == lastLine # EmptyString

ApproveChosen ==
    ChoiceRead /\ NormalisedChoice \in {<<"y">>, <<"y", "e", "s">>}

EditChosen ==
    ChoiceRead /\ NormalisedChoice \in {<<"e">>, <<"e", "d", "i", "t">>}

CancelChosen ==
    ChoiceRead
    /\ NormalisedChoice \in {<<"c">>, <<"c", "a", "n", "c", "e", "l">>}

ValidChoices ==
    {<<"y">>, <<"y", "e", "s">>, <<"n">>, <<"n", "o">>, <<"e">>,
     <<"e", "d", "i", "t">>, <<"c">>, <<"c", "a", "n", "c", "e", "l">>}

\* The current candidate is the trimmed text of the latest generation call,
\* which succeeded.
CandidateIsLatest(m) ==
    /\ genResps # <<>>
    /\ Last(genResps).ok
    /\ IsTrimOf(m, Last(genResps).text)

\* What C4 says of the message handed to createCommit after an Approve.
ApproveCommitsCandidate ==
    /\ pc \in {"commit", "done"}
    /\ CandidateIsLatest(message)
    /\ Len(displayed) = Count(calls, "readchoice")
    /\ pc = "commit" => commitArg = message /\ Last(calls) = "readchoice"
    /\ pc = "done" =>
         /\ commits = <<message>>
         /\ Last(calls) = "commit"
         /\ calls[Len(calls) - 1] = "readchoice"

(***************************************************************************)
(* C4 as stated: after an Approve (y/yes), following any number of         *)
(* Regenerate and Invalid rounds, the message passed to createCommit is    *)
(* the current candidate, the trimmed result of the latest successful      *)
(* generation, and the session then ends with success.                     *)
(***************************************************************************)
C4_ApproveEndsWithSuccess ==
    ApproveChosen =>
      /\ ApproveCommitsCandidate
      /\ pc = "done" => result = Success

(***************************************************************************)
(* C4 amended: after an Approve the message passed to createCommit is the  *)
(* current candidate, the trimmed result of the latest successful          *)
(* generation; the session ends right after that call, with success when   *)
(* createCommit succeeds and with its error when it fails.                 *)
(***************************************************************************)
C4_ApproveCommitsCurrentCandidate ==
    ApproveChosen =>
      /\ ApproveCommitsCandidate
      /\ pc = "done" =>
           \/ result = Success
           \/ /\ result.status = "error"
              /\ result.msg = "failed to create commit"

\* An approval after two regenerations whose three texts all differ: the
\* commit carries the third one.
C4_Witness ==
    /\ ApproveChosen
    /\ pc = "done"
    /\ result = Success
    /\ Len(genResps) = 3
    /\ commits = <<TrimSpace(genResps[3].text)>>
    /\ commits[1] # TrimSpace(genResps[1].text)
    /\ commits[1] # TrimSpace(genResps[2].text)

(***************************************************************************)
(* C5: after an Edit (e/edit) the editor is invoked once, on the current   *)
(* candidate.  If it succeeds, exactly the text it returned is passed to   *)
(* createCommit, and between the editor and the commit there is no prompt, *)
(* no presentation (dry-run check) and no generation call.  If it fails,   *)
(* the session ends with an error and createCommit is never invoked.       *)
(***************************************************************************)
C5_EditCommitsEditedText ==
    EditChosen =>
      /\ pc \in {"edit", "commit", "done"}
      /\ CandidateIsLatest(message)
      /\ Len(displayed) = Count(calls, "readchoice")
      /\ Len(editorCalls) <= 1
      /\ pc = "edit" <=> editorCalls = <<>>
      /\ pc = "edit" => Last(calls) = "readchoice" /\ commits = <<>>
      /\ editorCalls # <<>> =>
           LET e == editorCalls[1] IN
           /\ e.err \notin {"failed to create temp file",
                            "failed to write temp file"}
                => e.initial = message
           /\ e.err = NilError =>
                \/ /\ pc = "commit"
                   /\ commitArg = e.edited
                   /\ commits = <<>>
                   /\ Last(calls) = "editor"
                \/ /\ pc = "done"
                   /\ commits = <<e.edited>>
                   /\ Last(calls) = "commit"
                   /\ calls[Len(calls) - 1] = "editor"
           /\ e.err # NilError =>
                /\ pc = "done"
                /\ result = CLIError("failed to open editor", e.err)
                /\ commits = <<>>
                /\ Last(calls) = "editor"

\* The editor returned a text that differs from the candidate and ends with
\* a newline, and that text was committed as it is.
C5_Witness ==
    /\ EditChosen
    /\ pc = "done"
    /\ commits = <<<<"x", "\n">>>>
    /\ message # commits[1]
    /\ editorCalls[1].initial = message
    /\ Len(genCalls) >= 2

\* The feedback entered in regeneration round k, as it is handed on.
FeedbackOfRound(k) == TrimSpace(fbLines[k])

\* The user prompt that the diff and one feedback text alone determine.
PromptFor(d, f) ==
    IF f = EmptyString
    THEN UserPrefix \o d
    ELSE UserPrefix \o d \o FeedbackMarker \o f

(***************************************************************************)
(* C6: the first generation call is made with empty feedback, and the      *)
(* generation call of regeneration round k is made with the feedback       *)
(* entered in round k only: its user prompt is the one built from the diff *)
(* and that feedback, and it contains no feedback of an earlier round      *)
(* (other than text that the diff or the feedback of round k itself        *)
(* brings in).                                                             *)
(***************************************************************************)
C6_FeedbackOfThisRoundOnly ==
    /\ Len(fbLines) =
         (IF pc = "regenerate" THEN Len(genCalls)
          ELSE IF genCalls = <<>> THEN 0 ELSE Len(genCalls) - 1)
    /\ genCalls # <<>> => genCalls[1].user = UserPrefix \o diff
    /\ \A k \in 1..(Len(genCalls) - 1) :
         LET user == genCalls[k + 1].user
             fk == FeedbackOfRound(k)
         IN  /\ user = PromptFor(diff, fk)
             /\ fk # EmptyString =>
                  SubSeq(user, Len(user) - Len(fk) + 1, Len(user)) = fk
             /\ \A j \in 1..(k - 1) :
                  LET fj == FeedbackOfRound(j) IN
                  (fj # EmptyString /\ ~Contains(diff, fj)
                   /\ ~Contains(fk, fj))
                    => ~Contains(SubSeq(user, Len(UserPrefix) + 1, Len(user)),
                                 fj)

\* Two regeneration rounds with the feedback "bug" and then "docs": the
\* third prompt carries "docs" and not "bug".
C6_Witness ==
    /\ Len(genCalls) = 3
    /\ FeedbackOfRound(1) = <<"b", "u", "g">>
    /\ FeedbackOfRound(2) = <<"d", "o", "c", "s">>
    /\ Contains(genCalls[3].user, <<"d", "o", "c", "s">>)
    /\ ~Contains(genCalls[3].user, <<"b", "u", "g">>)

(***************************************************************************)
(* C7: after a Cancel (c/cancel), at any round of the loop, the session    *)
(* has returned nil: the read of the choice is its last external call, so  *)
(* no commit, no editor invocation and no generation call follows, and     *)
(* nothing was committed.                                                  *)
(***************************************************************************)
C7_CancelEndsWithoutEffect ==
    CancelChosen =>
      /\ pc = "done"
      /\ result = Success
      /\ Last(calls) = "readchoice"
      /\ commits = <<>>
      /\ editorCalls = <<>>
      /\ tmpFile = "none"
      /\ Count(calls, "commit") = 0
      /\ Count(calls, "editor") = 0
      /\ Len(genCalls) = Count(calls, "gen")
      /\ Len(displayed) = Count(calls, "readchoice")

\* A cancel with the short form "c", after a regeneration and an invalid
\* input.
C7_Witness ==
    /\ CancelChosen
    /\ lastLine = <<"c", "\n">>
    /\ pc = "done"
    /\ Len(genCalls) >= 2
    /\ Count(calls, "readchoice") >= 3

\* The step that reads a line which is none of the eight choices.
InvalidRead ==
    /\ pc = "prompt"
    /\ calls' = Append(calls, "readchoice")
    /\ lastLine' # EmptyString
    /\ ToLower(TrimSpace(lastLine')) \notin ValidChoices

\* The step that follows it.
AfterInvalidRead ==
    /\ pc = "present"
    /\ calls # <<>>
    /\ Last(calls) = "readchoice"

(***************************************************************************)
(* C8: a line that, trimmed and lower-cased, is none of                    *)
(* y/yes/n/no/e/edit/c/cancel changes neither the candidate, the diff nor  *)
(* the feedback, makes no generation, editor or commit call, and leads to  *)
(* the same message being shown and the same prompt again; the number of   *)
(* such lines in a row is not limited.                                     *)
(***************************************************************************)
C8_InvalidRepromptsUnchanged ==
    [][/\ InvalidRead =>
            /\ pc' = "present"
            /\ UNCHANGED <<message, diff, feedback, commitArg, result, genCalls,
                   genResps, fbLines, editorCalls, commits, tmpFile,
                   displayed>>
       /\ AfterInvalidRead =>
            /\ pc' = "prompt"
            /\ displayed' = Append(displayed, message)
            /\ UNCHANGED <<message, diff, feedback, commitArg, result, genCalls,
                   genResps, fbLines, editorCalls, commits, tmpFile, calls>>]_vars

\* The prompt is shown for the fourth time after "q", "maybe" and the empty
\* line in a row.
C8_Witness ==
    /\ pc = "prompt"
    /\ calls = <<"check", "diff", "client", "gen", "readchoice",
                 "readchoice", "readchoice">>
    /\ lastLine = <<"\n">>
    /\ Len(displayed) = 4
    /\ displayed[4] = displayed[1]

\* The staged check has run.
StagedChecked == stagedRun # NoRun

NoDifferences == stagedRun.started /\ stagedRun.code = 0

DifferencesExist == stagedRun.started /\ stagedRun.code = 1

\* The session ended with the "no staged changes" precondition failure.
NoStagedChangesReported ==
    /\ result.status = "error"
    /\ result.msg = "no staged changes found"

(***************************************************************************)
(* C9: the staged-changes check yields false when git exits 0 (the session *)
(* ends with the "no staged changes" precondition failure) and true when   *)
(* it exits 1 (the session goes on); for every other exit code, and when   *)
(* git cannot be run, the session ends with an execution error that        *)
(* carries the cause and is not the "no staged changes" failure.           *)
(***************************************************************************)
C9_StagedCheckOutcomes ==
    StagedChecked =>
      /\ NoDifferences => NoStagedChangesReported
      /\ DifferencesExist => ~NoStagedChangesReported
      /\ (~NoDifferences /\ ~DifferencesExist) =>
           /\ result.status = "error"
           /\ result.cause # ""
           /\ ~NoStagedChangesReported

\* The errors of runInteractiveCommit that come from a step before
\* createCommit.
ErrorsBeforeCommit ==
    {"no staged changes found", "failed to get diff", "no changes to commit",
     "failed to create AI client", "failed to generate commit message",
     "failed to regenerate message", "failed to read input",
     "failed to open editor"}

(***************************************************************************)
(* C10: a session that ends with an error of the staged check, the diff    *)
(* fetch, the empty-diff check, the client creation, a generation call, a  *)
(* terminal read or the editor has never invoked createCommit; and when    *)
(* createCommit is invoked it is the last external call of the session     *)
(* and the session has ended.                                              *)
(***************************************************************************)
C10_NoCommitOnErrorAndCommitLast ==
    /\ (result.status = "error" /\ result.msg \in ErrorsBeforeCommit) =>
         /\ commits = <<>>
         /\ Count(calls, "commit") = 0
    /\ (result.status = "error" /\ commits = <<>> /\ calls # <<>>) =>
         result.msg \in ErrorsBeforeCommit
    /\ \A i \in 1..Len(calls) : calls[i] = "commit" => i = Len(calls)
    /\ commits # <<>> =>
         /\ pc = "done"
         /\ Len(displayed) <= Count(calls, "readchoice") + 1

\* A session that ended with an editor failure after a regeneration round.
C10_Witness ==
    /\ pc = "done"
    /\ result.status = "error"
    /\ result.msg = "failed to open editor"
    /\ result.cause = "editor failed"
    /\ Len(genCalls) >= 2
    /\ commits = <<>>

\* ReadString returned an error at the choice prompt: the line is dropped.
ChoiceReadFailed == Count(calls, "readchoice") > 0 /\ lastLine = EmptyString

\* ReadString returned an error at a feedback prompt: the data it returned
\* does not end with the delimiter.
FeedbackReadFailed ==
    \E k \in 1..Len(fbLines) :
      fbLines[k] = EmptyString \/ Last(fbLines[k]) # "\n"

\* The session has ended with the input error, and the failed read is its
\* last external call.
EndedWithInputError(read) ==
    /\ pc = "done"
    /\ result.status = "error"
    /\ result.msg = "failed to read input"
    /\ result.cause # ""
    /\ Last(calls) = read

(***************************************************************************)
(* C11: when reading a line from the terminal fails, at the choice prompt  *)
(* or at the feedback prompt, the session ends with the input error: the   *)
(* failed read is its last external call (no generation, editor or commit  *)
(* call follows) and the error is reported.                                *)
(***************************************************************************)
C11_ReadFailureEndsSession ==
    /\ ChoiceReadFailed => EndedWithInputError("readchoice")
    /\ FeedbackReadFailed => EndedWithInputError("readfeedback")

ConfigLoaded == pc # "main" /\ result.msg # "failed to load AI config"

(***************************************************************************)
(* C13: invoked with no subcommand, with or without --yes, --dry-run and   *)
(* --model, the program runs the same workflow as the commit subcommand.   *)
(* Every run of the commit subcommand starts with the staged check and     *)
(* accepts the three flags, so every run that has ended, however it was    *)
(* invoked, has made the staged check as its first external call and has   *)
(* not rejected a flag.                                                    *)
(***************************************************************************)
C13_RootRunsSameWorkflow ==
    (pc = "done" /\ ConfigLoaded) =>
      /\ calls # <<>>
      /\ calls[1] = "check"
      /\ result.msg # "unknown flag"

\* runInteractiveCommit was entered: its first statement is the staged check.
SessionRan == calls # <<>>

SessionEnded == pc = "done" /\ SessionRan

\* The three ways a session ends without an error.
EndedByCommit == commitErrs # <<>> /\ Last(commitErrs) = "nil"

EndedByDryRun == dryRun /\ displayed # <<>> /\ Last(calls) = "gen"

EndedByCancel == CancelChosen /\ Last(calls) = "readchoice"

\* The terminal errors of a session, as the history shows them.
StagedCheckRefused == StagedChecked /\ ~DifferencesExist

DiffMissing ==
    Count(calls, "diff") = 1 /\ diff = EmptyString

ClientFailed == Last(calls) = "client" /\ svcModel = ""

GenerationFailed == genResps # <<>> /\ ~Last(genResps).ok

EditorFailed == editorCalls # <<>> /\ Last(editorCalls).outcome # "ok"

CommitFailed == commitErrs # <<>> /\ Last(commitErrs) # "nil"

ComposedFrom(k, d) ==
    /\ Len(genCalls[k].user) >= Len(UserPrefix) + Len(d)
    /\ SubSeq(genCalls[k].user, 1, Len(UserPrefix) + Len(d)) = UserPrefix \o d

(***************************************************************************)
(* C15: the staged diff is fetched at most once in a session; once         *)
(* fetched, the diff the session holds never changes, and every generation *)
(* call, the initial one and each regeneration, is composed from that one  *)
(* non-empty diff.                                                         *)
(***************************************************************************)
C15_DiffFetchedOnceAndReused ==
    /\ [](/\ Count(calls, "diff") <= 1
          /\ genCalls # <<>> => diff # EmptyString
          /\ \A k \in 1..Len(genCalls) : ComposedFrom(k, diff))
    /\ [][Count(calls, "diff") = 1 => diff' = diff]_vars

\* Three generation calls with three different prompts, all composed from
\* the diff of the single fetch.
C15_Witness ==
    /\ Len(genCalls) = 3
    /\ Count(calls, "diff") = 1
    /\ diff = <<"-", "a", "\n", "+", "b">>
    /\ \A k \in 1..3 : ComposedFrom(k, diff)
    /\ genCalls[1].user # genCalls[2].user
    /\ genCalls[2].user # genCalls[3].user
    /\ genCalls[1].user # genCalls[3].user

(***************************************************************************)
(* C16: once editInEditor has returned, on every path that follows the     *)
(* creation of the temporary file (failed write, editor that cannot be     *)
(* started or exits non-zero, failed read-back, success) the file no       *)
(* longer exists; and when the editor fails the operation fails: the       *)
(* session ends with the editor error and commits nothing.                 *)
(***************************************************************************)
C16_TempFileRemovedOnEveryPath ==
    /\ tmpFile # "exists"
    /\ editorCalls = <<>> => tmpFile = "none"
    /\ editorCalls # <<>> =>
         LET e == Last(editorCalls) IN
         /\ e.outcome = "createfail" => tmpFile = "none"
         /\ e.outcome \in {"writefail", "editorfail", "readfail", "ok"} =>
              tmpFile = "removed"
         /\ e.outcome = "editorfail" =>
              /\ e.err = "editor failed"
              /\ pc = "done"
              /\ result = CLIError("failed to open editor", "editor failed")
              /\ commits = <<>>

\* The editor exited non-zero: the file is gone and the session has failed.
C16_Witness ==
    /\ editorCalls # <<>>
    /\ Last(editorCalls).outcome = "editorfail"
    /\ Last(editorCalls).initial = message
    /\ tmpFile = "removed"
    /\ pc = "done"
    /\ ExitCode(result) = 1

(***************************************************************************)
(* C17: for every diff D and feedback F, CommitMessage(D, F) returns the   *)
(* fixed system prompt and a user prompt that is the fixed prefix followed *)
(* by D verbatim, followed by the feedback marker and F exactly when F is  *)
(* not empty: with empty F the prompt ends with D and contains no marker,  *)
(* with non-empty F the prompt ends with the marker followed by F.         *)
(***************************************************************************)
C17_ComposeShape ==
    fnDone =>
      LET D == fnIn.diff
          F == fnIn.feedback
          u == fnOut.user
          p == Len(UserPrefix)
          m == Len(FeedbackMarker)
      IN  /\ fnOut.system = SystemPrompt
          /\ Len(u) >= p + Len(D)
          /\ SubSeq(u, 1, p) = UserPrefix
          /\ SubSeq(u, p + 1, p + Len(D)) = D
          /\ F = EmptyString =>
               /\ Len(u) = p + Len(D)
               /\ ~Contains(u, FeedbackMarker)
          /\ F # EmptyString =>
               /\ Len(u) = p + Len(D) + m + Len(F)
               /\ SubSeq(u, p + Len(D) + 1, p + Len(D) + m) = FeedbackMarker
               /\ SubSeq(u, p + Len(D) + m + 1, Len(u)) = F

\* A diff with a newline and a feedback with white space around it, which
\* CommitMessage does not trim.
C17_Witness ==
    /\ fnDone
    /\ fnIn.diff = <<"a", "\n">>
    /\ fnIn.feedback = <<" ", "a">>
    /\ Contains(fnOut.user, FeedbackMarker \o <<" ", "a">>)
    /\ fnOut.user[Len(UserPrefix) + 1] = "a"

ApproveWords ==
    {<<"y">>, <<"Y">>, <<"y", "e", "s">>, <<"Y", "E", "S">>,
     <<"Y", "e", "s">>}

RegenerateWords ==
    {<<"n">>, <<"N">>, <<"n", "o">>, <<"N", "o">>, <<"N", "O">>}

EditWords ==
    {<<"e">>, <<"E">>, <<"e", "d", "i", "t">>, <<"E", "D", "I", "T">>,
     <<"E", "d", "i", "t">>}

CancelWords ==
    {<<"c">>, <<"C">>, <<"c", "a", "n", "c", "e", "l">>,
     <<"C", "A", "N", "C", "E", "L">>, <<"C", "a", "n", "c", "e", "l">>}

(***************************************************************************)
(* C18: the decision parsed from one line does not depend on the case of   *)
(* the letters, on white space around the word or on the line terminator:  *)
(* y/yes give Approve, n/no Regenerate, e/edit Edit, c/cancel Cancel, and  *)
(* every other line, the empty one, "q" and "maybe" among them, Invalid.   *)
(***************************************************************************)
C18_DecisionParsing ==
    fnDone =>
      LET w == fnIn.word IN
      /\ w \in ApproveWords <=> fnOut = "approve"
      /\ w \in RegenerateWords <=> fnOut = "regenerate"
      /\ w \in EditWords <=> fnOut = "edit"
      /\ w \in CancelWords <=> fnOut = "cancel"
      /\ w \notin (ApproveWords \cup RegenerateWords \cup EditWords
                   \cup CancelWords) <=> fnOut = "invalid"
      /\ w \in {EmptyString, <<"q">>, <<"m", "a", "y", "b", "e">>} =>
           fnOut = "invalid"

\* " YES \n" is an Approve.
C18_Witness ==
    /\ fnDone
    /\ LineOf(fnIn) = <<" ", "Y", "E", "S", " ", "\n">>
    /\ fnOut = "approve"

\* Regenerate decisions taken so far.
RegenerateDecisions == Count(decisions, "regenerate")

\* A Regenerate decision whose generation call is still to be made: the
\* session is at the feedback prompt or about to call the service.
PendingRegeneration == IF pc \in {"feedback", "regenerate"} THEN 1 ELSE 0

(***************************************************************************)
(* C20: no generation call is made before the staged check has passed and  *)
(* a non-empty diff has been fetched; from the initial generation on, the  *)
(* number of generation calls is one plus the number of Regenerate         *)
(* decisions (the call of a decision just taken being made after its       *)
(* feedback prompt), so Approve, Edit, Cancel and Invalid cause none; a    *)
(* failed generation call is the last call of the session, which has       *)
(* ended with an error.                                                    *)
(***************************************************************************)
C20_GenerationCallCount ==
    /\ Len(genCalls) = Count(calls, "gen")
    /\ Len(genResps) = Len(genCalls)
    /\ genCalls = <<>> => decisions = <<>>
    /\ genCalls # <<>> =>
         /\ DifferencesExist
         /\ diff # EmptyString
         /\ calls[4] = "gen"
         /\ Len(genCalls) = 1 + RegenerateDecisions - PendingRegeneration
    /\ \A k \in 1..Len(genResps) :
         ~genResps[k].ok =>
           /\ k = Len(genResps)
           /\ Last(calls) = "gen"
           /\ pc = "done"
           /\ result.status = "error"

\* An invalid line, a regeneration and an edit: two generation calls.
C20_Witness ==
    /\ decisions = <<"invalid", "regenerate", "edit">>
    /\ Len(genCalls) = 2
    /\ pc = "done"
    /\ Len(commits) = 1

\* The user has entered Approve, Edit or Cancel, or a read of the terminal
\* has failed.
TerminatingInput ==
    \/ ApproveChosen
    \/ EditChosen
    \/ CancelChosen
    \/ ChoiceReadFailed
    \/ FeedbackReadFailed

(***************************************************************************)
(* C19: every external call returning, a session in which the user enters  *)
(* an Approve, Edit or Cancel choice, or in which a read of the terminal   *)
(* fails, reaches a terminal state; only a session whose inputs are        *)
(* Invalid and Regenerate choices for ever does not end.                   *)
(***************************************************************************)
C19_TerminatingInputEndsSession == TerminatingInput ~> (pc = "done")

====
